---- MODULE Spec2Model ----
(***************************************************************************)
(* Model of scripts/ops/speedtest-stats.py: one run of main(), step by     *)
(* step, over the CSV log, the diagnostics log and the external commands.  *)
(*                                                                         *)
(* Text is a sequence of atoms.  An atom is a word, or one of the          *)
(* characters the code looks at: "," (field separator), " " (blank) and    *)
(* NL (line feed).  str methods are computed on these sequences.           *)
(***************************************************************************)
EXTENDS Integers, Sequences, FiniteSets, TLC

NL == "\n"

\* Python's None (get_default_route returns it for "no gateway"): a value
\* that is no text a command prints.
None == << "<None>" >>

\* bool(x) is false for None and for the empty string.
falsy(x) == x = None \/ x = <<>>

(***************************************************************************)
(* str methods                                                             *)
(***************************************************************************)
IsSpace(a) == a \in {" ", NL}

RECURSIVE lstrip(_)
lstrip(s) == IF s # <<>> /\ IsSpace(Head(s)) THEN lstrip(Tail(s)) ELSE s

RECURSIVE rstrip(_)
rstrip(s) ==
    IF s # <<>> /\ IsSpace(s[Len(s)]) THEN rstrip(SubSeq(s, 1, Len(s) - 1)) ELSE s

\* str.strip()
strip(s) == rstrip(lstrip(s))

\* str.rstrip("\n")
RECURSIVE rstrip_nl(_)
rstrip_nl(s) ==
    IF s # <<>> /\ s[Len(s)] = NL THEN rstrip_nl(SubSeq(s, 1, Len(s) - 1)) ELSE s

\* Index of the first occurrence of atom a in s, 0 when there is none.
find(s, a) ==
    IF \E i \in 1..Len(s) : s[i] = a
    THEN CHOOSE i \in 1..Len(s) : s[i] = a /\ \A j \in 1..(i - 1) : s[j] # a
    ELSE 0

\* f.readline(): the text up to and including the first line feed.
readline(s) == IF find(s, NL) = 0 THEN s ELSE SubSeq(s, 1, find(s, NL))

\* f.read() after f.readline(): whatever follows the first line.
read_rest(s) == IF find(s, NL) = 0 THEN <<>> ELSE SubSeq(s, find(s, NL) + 1, Len(s))

\* str.splitlines(): the lines without their line feeds; no empty last line.
RECURSIVE splitlines(_)
splitlines(s) ==
    IF s = <<>> THEN <<>>
    ELSE IF find(s, NL) = 0 THEN <<s>>
    ELSE <<SubSeq(s, 1, find(s, NL) - 1)>>
         \o splitlines(SubSeq(s, find(s, NL) + 1, Len(s)))

\* str.split(sep) for a one-atom separator: always at least one field.
RECURSIVE split(_, _)
split(s, sep) ==
    IF find(s, sep) = 0 THEN <<s>>
    ELSE <<SubSeq(s, 1, find(s, sep) - 1)>>
         \o split(SubSeq(s, find(s, sep) + 1, Len(s)), sep)

\* str.split() with no argument: the words between runs of white space.
RECURSIVE split_ws(_)
split_ws(s) ==
    LET t == lstrip(s)
        n == IF \E i \in 1..Len(t) : IsSpace(t[i])
             THEN (CHOOSE i \in 1..Len(t) :
                      IsSpace(t[i]) /\ \A j \in 1..(i - 1) : ~IsSpace(t[j])) - 1
             ELSE Len(t)
    IN  IF t = <<>> THEN <<>>
        ELSE <<SubSeq(t, 1, n)>> \o split_ws(SubSeq(t, n + 1, Len(t)))

\* p in s
contains(s, p) ==
    \E i \in 1..(Len(s) - Len(p) + 1) : SubSeq(s, i, i + Len(p) - 1) = p

\* s.startswith(p)
startswith(s, p) == Len(s) >= Len(p) /\ SubSeq(s, 1, Len(p)) = p

\* str.lower(), atom by atom; atoms without capitals map to themselves.
LowerAtom(a) ==
    CASE a = "Timeout" -> "timeout"
      [] a = "TIMEOUT" -> "timeout"
      [] a = "Permission" -> "permission"
      [] a = "Network" -> "network"
      [] a = "NotFoundException" -> "notfoundexception"
      [] a = "PermissionError:" -> "permissionerror:"
      [] a = "FileNotFoundError:" -> "filenotfounderror:"
      [] a = "Connection" -> "connection"
      [] OTHER -> a

lower(s) == [i \in 1..Len(s) |-> LowerAtom(s[i])]

(***************************************************************************)
(* Configuration                                                           *)
(***************************************************************************)
CSV_HEADER == <<
    "timestamp", ",", "download_mbps", ",", "upload_mbps", ",", "ping_ms", ",",
    "jitter_ms", ",", "packet_loss", ",", "server_name", ",", "server_id", ",",
    "isp", ",", "gw_ping_ms", ",", "gw_loss_pct", ",", "cf_ping_ms", ",",
    "cf_loss_pct", ",", "g_ping_ms", ",", "g_loss_pct", ",", "dns_ms", ",",
    "http_ms", ",", "wifi_iface", ",", "wifi_ssid", ",", "wifi_band", ",",
    "status", ",", "error" >>

CSV_FIELD_COUNT == Len(split(CSV_HEADER, ","))

\* iso_now(): the clock is not modelled, every reading is the same instant.
iso_now == "now"

(***************************************************************************)
(* Files.  A file is absent, or holds text.  Writes are assumed to         *)
(* succeed; a read of an existing file may fail (an I/O or decoding        *)
(* error), which is the environment's choice when the file is opened.      *)
(***************************************************************************)
AbsentFile == [exists |-> FALSE, data |-> <<>>]

\* open(path, "w") followed by the writes that produce `text`.
write_file(text) == [exists |-> TRUE, data |-> text]

\* Faulty variant of append_line: the file is opened for writing, not for
\* appending.
append_line_truncating(f, text) ==
    [exists |-> TRUE, data |-> rstrip_nl(text) \o <<NL>>]

\* append_line(path, text): open for append (creating the file), write the
\* text without its trailing line feeds, then one line feed.
append_line(f, text) ==
    [exists |-> TRUE, data |-> f.data \o rstrip_nl(text) \o <<NL>>]

\* log_diag(record) on the diagnostics log `log`: the record, stamped with
\* the current time unless the caller set "ts", is appended as one line.
\* The keys modelled are the four every event carries; the context keys
\* (iface, gateway_ip, stderr, ...) are left out.
\* Faulty variant of log_diag: the record is appended as the caller built
\* it, without the default for "ts".
log_diag_as_given(log, record) == Append(log, record)

log_diag(log, record) ==
    Append(log, IF "ts" \in DOMAIN record THEN record
                ELSE record @@ ("ts" :> iso_now))

\* Faulty variant of rewrite_lines: only blank lines are skipped, header
\* lines are written back.
RECURSIVE rewrite_lines_keeping_headers(_)
rewrite_lines_keeping_headers(lines) ==
    IF lines = <<>> THEN <<>>
    ELSE LET line == Head(lines) IN
         IF strip(line) = <<>> THEN rewrite_lines_keeping_headers(Tail(lines))
         ELSE rstrip_nl(line) \o <<NL>> \o rewrite_lines_keeping_headers(Tail(lines))

\* The loop of ensure_csv_header over rest.splitlines(): blank lines and
\* lines that start with "timestamp" are skipped, the others written back.
RECURSIVE rewrite_lines(_)
rewrite_lines(lines) ==
    IF lines = <<>> THEN <<>>
    ELSE LET line == Head(lines) IN
         IF strip(line) = <<>> THEN rewrite_lines(Tail(lines))
         ELSE IF startswith(strip(line), <<"timestamp">>)
              THEN rewrite_lines(Tail(lines))
         ELSE rstrip_nl(line) \o <<NL>> \o rewrite_lines(Tail(lines))

\* Faulty variant of ensure_csv_header: a file that cannot be read is
\* recreated without an event.
ensure_csv_header_silent(f, read_ok) ==
    IF ~f.exists
    THEN [csv |-> write_file(CSV_HEADER \o <<NL>>), events |-> <<>>]
    ELSE IF ~read_ok
    THEN [csv |-> write_file(CSV_HEADER \o <<NL>>), events |-> <<>>]
    ELSE LET first_line == strip(readline(f.data))
             rest == read_rest(f.data)
         IN  IF first_line = CSV_HEADER
             THEN [csv |-> f, events |-> <<>>]
             ELSE [csv |-> write_file(CSV_HEADER \o <<NL>>
                                      \o rewrite_lines(splitlines(rest))),
                   events |-> log_diag(<<>>, [level |-> "INFO", phase |-> "init",
                                              reason |-> "CSV_HEADER_FIXED"])]

\* Faulty variant of ensure_csv_header: the first line is compared with the
\* header as it was read, with its line feed.
ensure_csv_header_unstripped(f, read_ok) ==
    IF ~f.exists
    THEN [csv |-> write_file(CSV_HEADER \o <<NL>>), events |-> <<>>]
    ELSE IF ~read_ok
    THEN [csv |-> write_file(CSV_HEADER \o <<NL>>),
          events |-> log_diag(<<>>, [level |-> "ERROR", phase |-> "init",
                                     reason |-> "CSV_READ_ERROR"])]
    ELSE LET first_line == readline(f.data)
             rest == read_rest(f.data)
         IN  IF first_line = CSV_HEADER
             THEN [csv |-> f, events |-> <<>>]
             ELSE [csv |-> write_file(CSV_HEADER \o <<NL>>
                                      \o rewrite_lines(splitlines(rest))),
                   events |-> log_diag(<<>>, [level |-> "INFO", phase |-> "init",
                                              reason |-> "CSV_HEADER_FIXED"])]

\* ensure_csv_header(path): the file it leaves and the events it logs.
\* read_ok is whether reading the existing file succeeds.
ensure_csv_header(f, read_ok) ==
    IF ~f.exists
    THEN [csv |-> write_file(CSV_HEADER \o <<NL>>), events |-> <<>>]
    ELSE IF ~read_ok
    THEN [csv |-> write_file(CSV_HEADER \o <<NL>>),
          events |-> log_diag(<<>>, [level |-> "ERROR", phase |-> "init",
                                     reason |-> "CSV_READ_ERROR"])]
    ELSE LET first_line == strip(readline(f.data))
             rest == read_rest(f.data)
         IN  IF first_line = CSV_HEADER
             THEN [csv |-> f, events |-> <<>>]
             ELSE [csv |-> write_file(CSV_HEADER \o <<NL>>
                                      \o rewrite_lines(splitlines(rest))),
                   events |-> log_diag(<<>>, [level |-> "INFO", phase |-> "init",
                                              reason |-> "CSV_HEADER_FIXED"])]

(***************************************************************************)
(* External commands.  What a process does is the environment's choice:    *)
(* it cannot be launched (subprocess.run raises), or it exits with a       *)
(* return code and its two output streams.                                 *)
(***************************************************************************)
Proc(rc, out, err) ==
    [launched |-> TRUE, returncode |-> rc, stdout |-> out, stderr |-> err]

LaunchError(e) ==
    [launched |-> FALSE, returncode |-> 0, stdout |-> <<>>, stderr |-> e]

\* Faulty variant of run_cmd: a command that could not be launched is
\* reported with exit code 0.
run_cmd_launch_ok(res) ==
    IF res.launched
    THEN [rc |-> res.returncode, out |-> strip(res.stdout), err |-> strip(res.stderr)]
    ELSE [rc |-> 0, out |-> <<>>, err |-> res.stderr]

\* run_cmd(cmd) on a process that behaves as `res`.
run_cmd(res) ==
    IF res.launched
    THEN [rc |-> res.returncode, out |-> strip(res.stdout), err |-> strip(res.stderr)]
    ELSE [rc |-> 1, out |-> <<>>, err |-> res.stderr]

\* get_default_route() given the result of `ip route show default`.
RECURSIVE default_route_of(_)
default_route_of(lines) ==
    IF lines = <<>> THEN [gw |-> None, dev |-> None]
    ELSE LET parts == split_ws(Head(lines)) IN
         IF Len(parts) >= 5 /\ parts[1] = <<"default">> /\ parts[2] = <<"via">>
         THEN [gw |-> parts[3], dev |-> parts[5]]
         ELSE default_route_of(Tail(lines))

\* Faulty variant of get_default_route: only the first line of the output
\* is looked at.
get_default_route_first_line(res) ==
    LET r == run_cmd(res)
        parts == split_ws(Head(splitlines(r.out)))
    IN  IF r.rc # 0 \/ r.out = <<>> THEN [gw |-> None, dev |-> None]
        ELSE IF Len(parts) >= 5 /\ parts[1] = <<"default">> /\ parts[2] = <<"via">>
             THEN [gw |-> parts[3], dev |-> parts[5]]
        ELSE [gw |-> None, dev |-> None]

get_default_route(res) ==
    LET r == run_cmd(res) IN
    IF r.rc # 0 \/ r.out = <<>> THEN [gw |-> None, dev |-> None]
    ELSE default_route_of(splitlines(r.out))

\* check_iface(iface) given the result of `ip link show <iface>`.
check_iface(res) ==
    LET r == run_cmd(res) IN
    IF r.rc # 0 THEN [ok |-> FALSE, reason |-> "IFACE_NOT_FOUND"]
    ELSE IF contains(r.out, <<"state", " ", "DOWN">>)
         THEN [ok |-> FALSE, reason |-> "IFACE_DOWN"]
    ELSE [ok |-> TRUE, reason |-> "OK"]

\* check_ip_address(iface) given the result of `ip -4 addr show dev <iface>`.
check_ip_address(res) ==
    LET r == run_cmd(res) IN
    IF r.rc # 0 THEN [ok |-> FALSE, reason |-> "ADDR_CMD_ERROR"]
    ELSE IF ~contains(r.out, <<"inet", " ">>)
         THEN [ok |-> FALSE, reason |-> "NO_IP_ADDR"]
    ELSE [ok |-> TRUE, reason |-> "OK"]

\* check_gateway(gateway_ip) given the result of `ping -c 1 -W 2 <gateway_ip>`.
check_gateway(res) ==
    LET r == run_cmd(res) IN
    IF r.rc # 0 THEN [ok |-> FALSE, reason |-> "GATEWAY_UNREACH"]
    ELSE [ok |-> TRUE, reason |-> "OK"]

\* Faulty variant of classify_speedtest_error: the "Network unreachable"
\* rule is tried before the "NotFoundException" rule.
classify_rules_swapped(stderr) ==
    IF contains(stderr, <<"Network", " ", "unreachable">>) THEN "SPEEDTEST_NET_UNREACH"
    ELSE IF contains(stderr, <<"NotFoundException">>)
         THEN "SPEEDTEST_IFACE_NOT_FOUND"
    ELSE IF contains(lower(stderr), <<"timeout">>) THEN "SPEEDTEST_TIMEOUT"
    ELSE IF contains(lower(stderr), <<"permission", " ", "denied">>)
         THEN "SPEEDTEST_PERMISSION"
    ELSE IF stderr = <<>> THEN "SPEEDTEST_UNKNOWN"
    ELSE "SPEEDTEST_ERROR"

\* classify_speedtest_error(stderr)
classify_speedtest_error(stderr) ==
    IF contains(stderr, <<"NotFoundException">>) THEN "SPEEDTEST_IFACE_NOT_FOUND"
    ELSE IF contains(stderr, <<"Network", " ", "unreachable">>)
         THEN "SPEEDTEST_NET_UNREACH"
    ELSE IF contains(lower(stderr), <<"timeout">>) THEN "SPEEDTEST_TIMEOUT"
    ELSE IF contains(lower(stderr), <<"permission", " ", "denied">>)
         THEN "SPEEDTEST_PERMISSION"
    ELSE IF stderr = <<>> THEN "SPEEDTEST_UNKNOWN"
    ELSE "SPEEDTEST_ERROR"

\* Faulty variant of validate_csv_line: accepts any line that has at least
\* the expected number of fields.
validate_at_least(line) == Len(split(line, ",")) >= CSV_FIELD_COUNT

\* validate_csv_line(line): the fields are stripped, then counted.
validate_csv_line(line) ==
    LET fields == [i \in 1..Len(split(line, ",")) |-> strip(split(line, ",")[i])]
    IN  Len(fields) = CSV_FIELD_COUNT

(***************************************************************************)
(* The environment: prior contents of the CSV file, the configured         *)
(* gateway, and what each external command may do.                         *)
(***************************************************************************)
\* Most lines of a prior CSV file.
MaxLines == 3

\* A header of an older schema.
OldHeader == << "timestamp", ",", "download_mbps", ",", "upload_mbps" >>

Row1 == << "2023-12-30T00:00:00Z", ",", "90", ",", "18" >>

Row2 == << "2023-12-31T00:00:00Z", ",", "95", ",", "19" >>

\* The lines a prior file is made of: the header, the header followed by a
\* blank, an old header, two data rows, an empty line.
PriorLines == { CSV_HEADER, CSV_HEADER \o << " " >>, OldHeader, Row1, Row2, <<>> }

\* The lines, each ended by a line feed.
RECURSIVE join_lines(_)
join_lines(lines) ==
    IF lines = <<>> THEN <<>>
    ELSE Head(lines) \o <<NL>> \o join_lines(Tail(lines))

\* Texts of up to MaxLines lines, the last line with or without its line feed.
PriorTexts ==
    LET seqs == UNION { [1..n -> PriorLines] : n \in 0..MaxLines }
    IN  { join_lines(ls) : ls \in seqs }
        \cup { SubSeq(join_lines(ls), 1, Len(join_lines(ls)) - 1) :
                   ls \in seqs \ { <<>> } }

PriorFiles == { AbsentFile } \cup { write_file(t) : t \in PriorTexts }

GatewayAddr == << "192.168.12.1" >>

\* SPEEDTEST_GATEWAY_IP: unset (the default "") or an address.
GatewaySettings == { <<>>, GatewayAddr }

\* `ip link show <iface>`
LinkResults ==
    { Proc(0, << "2:", " ", "wlp2s0:", " ", "state", " ", "UP", NL >>, <<>>),
      Proc(0, << "2:", " ", "wlp2s0:", " ", "state", " ", "DOWN", NL >>, <<>>),
      Proc(1, <<>>, << "Device", " ", "does", " ", "not", " ", "exist", NL >>),
      LaunchError(<< "FileNotFoundError:", " ", "ip" >>) }

\* `ip -4 addr show dev <iface>`
AddrResults ==
    { Proc(0, << "inet", " ", "192.168.12.34/24", NL >>, <<>>),
      Proc(0, <<>>, <<>>),
      Proc(1, <<>>, << "Device", " ", "does", " ", "not", " ", "exist", NL >>),
      LaunchError(<< "FileNotFoundError:", " ", "ip" >>) }

\* `ip route show default`
RouteResults ==
    { Proc(0, << "default", " ", "via" >> \o << " " >> \o GatewayAddr
              \o << " ", "dev", " ", "wlp2s0", NL >>, <<>>),
      Proc(0, << "default", " ", "dev", " ", "ppp0", " ", "scope", " ", "link", NL >>,
           <<>>),
      Proc(0, << "default", " ", "dev", " ", "ppp0", NL,
                 "default", " ", "via" >> \o << " " >> \o GatewayAddr
              \o << " ", "dev", " ", "wlp2s0", NL,
                    "default", " ", "via", " ", "10.0.0.1", " ", "dev", " ", "eth0", NL >>,
           <<>>),
      Proc(0, << "default", " ", "via" >> \o << " " >> \o GatewayAddr \o << NL >>, <<>>),
      Proc(0, <<>>, <<>>),
      Proc(2, <<>>, << "Error", NL >>),
      LaunchError(<< "FileNotFoundError:", " ", "ip" >>) }

\* `ping -c 1 -W 2 <gateway_ip>`
PingResults ==
    { Proc(0, << "1", " ", "received", NL >>, <<>>),
      Proc(1, << "0", " ", "received", NL >>, <<>>),
      LaunchError(<< "FileNotFoundError:", " ", "ping" >>) }

\* Lines the measurement command may print.
GoodRow == <<
    "2024-01-01T00:00:00Z", ",", "100", ",", "20", ",", "10", ",", "1", ",", "0",
    ",", "srv", ",", "1", ",", "ISP", ",", ",", ",", ",", ",", ",", ",", ",", ",",
    ",", ",", ",", "ok", "," >>

\* 22 empty fields.
EmptyRow == [i \in 1..(CSV_FIELD_COUNT - 1) |-> ","]

\* 18 fields.
ShortRow == SubSeq(GoodRow, 1, Len(GoodRow) - 5)

\* 23 fields.
LongRow == GoodRow \o << "," >>

\* Two lines that hold 22 comma-separated fields between them.
TwoLines == SubSeq(GoodRow, 1, 10) \o << NL >> \o SubSeq(GoodRow, 11, Len(GoodRow))

SpeedtestStdouts ==
    { GoodRow \o << NL >>, EmptyRow \o << NL >>, ShortRow \o << NL >>,
      LongRow \o << NL >>, TwoLines \o << NL >>, << NL >>, <<>> }

\* What the measurement command may write to stderr when it fails.
SpeedtestStderrs ==
    { <<>>,
      << "NotFoundException", NL >>,
      << "Network", " ", "unreachable", NL >>,
      << "connect", " ", "timeout", NL >>,
      << "Timeout", " ", "reached", NL >>,
      << "Permission", " ", "denied", NL >>,
      << "notfoundexception", " ", "network", " ", "unreachable", NL >>,
      << "Configuration", " ", "error", NL >>,
      << "NotFoundException", " ", "Network", " ", "unreachable", NL >>,
      << "NotFoundException", " ", "after", " ", "TIMEOUT", NL >>,
      << "Network", " ", "unreachable", " ", "permission", " ", "denied", NL >>,
      << "Timeout", " ", "permission", " ", "denied", NL >> }

\* What run_cmd catches when SPEEDTEST_CMD cannot be launched: the binary
\* may not be executed, the command has an unbalanced quote (shlex.split
\* raises), the command is the empty string (no program to run).
SpeedtestLaunchErrors ==
    { << "PermissionError:", " ", "Permission", " ", "denied" >>,
      << "ValueError:", " ", "No", " ", "closing", " ", "quotation" >>,
      << "IndexError:", " ", "list", " ", "index", " ", "out", " ", "of", " ", "range" >> }

\* SPEEDTEST_CMD
SpeedtestResults ==
    { Proc(0, out, <<>>) : out \in SpeedtestStdouts }
    \cup { Proc(1, <<>>, e) : e \in SpeedtestStderrs }
    \cup { LaunchError(e) : e \in SpeedtestLaunchErrors }

\* The data rows of a CSV text: its lines that are not blank and do not
\* start with "timestamp".
data_rows(text) ==
    SelectSeq(splitlines(text),
              LAMBDA line : strip(line) # <<>>
                            /\ ~startswith(strip(line), << "timestamp" >>))

(***************************************************************************)
(* State of a run of main()                                                *)
(***************************************************************************)
VARIABLES
    GATEWAY_IP,   \* the configured gateway
    csv,          \* the file at CSV_PATH
    prior_rows,   \* the data rows the file held when the run started
    diag,         \* the events the run has appended to the diagnostics log
    calls,        \* the external commands the run has invoked, in order
    pc,           \* where main() is
    gw_ip,        \* main's gw_ip
    ok,           \* main's ok_iface, ok_ip, ok_gw (FALSE until assigned)
    speedtest,    \* main's (rc, out, err) from run_speedtest()
    exit,         \* <<>> while main runs, then << its return value >>
    route,        \* << what `ip route show default` did >> once it was queried
    unlaunched    \* the commands of the run that could not be launched

vars ==
    << GATEWAY_IP, csv, prior_rows, diag, calls, pc, gw_ip, ok, speedtest, exit,
       route, unlaunched >>

\* main's ts, taken at line 244.
ts == iso_now

Init ==
    /\ GATEWAY_IP \in GatewaySettings
    /\ csv \in PriorFiles
    /\ prior_rows = data_rows(csv.data)
    /\ diag = <<>>
    /\ calls = <<>>
    /\ pc = "ensure_csv_header"
    /\ gw_ip = <<>>
    /\ ok = [iface |-> FALSE, ip |-> FALSE, gw |-> FALSE]
    /\ speedtest = [rc |-> 0, out |-> <<>>, err |-> <<>>]
    /\ exit = <<>>
    /\ route = <<>>
    /\ unlaunched = {}

\* run_cmd(cmd) took the except branch: `cmd` joins the commands that could
\* not be launched.
Launch(cmd, res) ==
    unlaunched' = IF res.launched THEN unlaunched ELSE unlaunched \cup { cmd }

\* return <code> from main()
Return(code) == pc' = "done" /\ exit' = << code >>

\* Faulty variant of LogAndReturn: an exit that logs nothing.
ReturnSilently(level, phase, reason) == diag' = diag /\ Return(0)

\* Faulty variant of LogAndReturn: an exit that reports an ERROR to the
\* scheduler with a non-zero return value.
LogAndReturnFailure(level, phase, reason) ==
    /\ diag' = log_diag(diag, [ts |-> ts, level |-> level, phase |-> phase,
                               reason |-> reason])
    /\ Return(IF level = "ERROR" THEN 1 ELSE 0)

\* log_diag({"ts": ts, "level": ..., "phase": ..., "reason": ...}); return 0
LogAndReturn(level, phase, reason) ==
    /\ diag' = log_diag(diag, [ts |-> ts, level |-> level, phase |-> phase,
                               reason |-> reason])
    /\ Return(0)

\* 0) ensure_csv_header(CSV_PATH)
EnsureCsvHeader ==
    /\ pc = "ensure_csv_header"
    /\ \E read_ok \in BOOLEAN :
         /\ (~read_ok => csv.exists)
         /\ LET done == ensure_csv_header(csv, read_ok)
            IN  /\ csv' = done.csv
                /\ diag' = diag \o done.events
    /\ pc' = "gateway"
    /\ UNCHANGED << GATEWAY_IP, prior_rows, calls, gw_ip, ok, speedtest, exit,
                    route, unlaunched >>

\* 1) gw_ip = GATEWAY_IP, or get_default_route() when it is not set
DetermineGateway ==
    /\ pc = "gateway"
    /\ IF falsy(GATEWAY_IP)
       THEN \E res \in RouteResults :
              /\ calls' = Append(calls, "ip route show default")
              /\ gw_ip' = get_default_route(res).gw
              /\ route' = << res >>
              /\ Launch("ip route show default", res)
       ELSE /\ gw_ip' = GATEWAY_IP
            /\ UNCHANGED << calls, route, unlaunched >>
    /\ pc' = "check_iface"
    /\ UNCHANGED << GATEWAY_IP, csv, prior_rows, diag, ok, speedtest, exit >>

\* Faulty variant of CheckIface: the failure is logged but main() goes on
\* to the address check instead of returning.
CheckIfaceNoReturn ==
    /\ pc = "check_iface"
    /\ \E res \in LinkResults :
         /\ calls' = Append(calls, "ip link show")
         /\ Launch("ip link show", res)
         /\ ok' = [ok EXCEPT !.iface = check_iface(res).ok]
         /\ diag' = IF check_iface(res).ok THEN diag
                    ELSE log_diag(diag, [ts |-> ts, level |-> "ERROR",
                                         phase |-> "precheck",
                                         reason |-> check_iface(res).reason])
    /\ pc' = "check_ip_address"
    /\ UNCHANGED << GATEWAY_IP, csv, prior_rows, gw_ip, speedtest, exit, route >>

\* 2) check_iface(IFACE)
CheckIface ==
    /\ pc = "check_iface"
    /\ \E res \in LinkResults :
         /\ calls' = Append(calls, "ip link show")
         /\ Launch("ip link show", res)
         /\ ok' = [ok EXCEPT !.iface = check_iface(res).ok]
         /\ IF ~check_iface(res).ok
            THEN LogAndReturn("ERROR", "precheck", check_iface(res).reason)
            ELSE /\ pc' = "check_ip_address"
                 /\ UNCHANGED << diag, exit >>
    /\ UNCHANGED << GATEWAY_IP, csv, prior_rows, gw_ip, speedtest, route >>

\* Faulty variant of CheckIpAddress: the test of gw_ip is missing.
CheckIpAddressNoGatewayTest ==
    /\ pc = "check_ip_address"
    /\ \E res \in AddrResults :
         /\ calls' = Append(calls, "ip -4 addr show dev")
         /\ Launch("ip -4 addr show dev", res)
         /\ ok' = [ok EXCEPT !.ip = check_ip_address(res).ok]
         /\ IF ~check_ip_address(res).ok
            THEN LogAndReturn("ERROR", "precheck", check_ip_address(res).reason)
            ELSE /\ pc' = "check_gateway"
                 /\ UNCHANGED << diag, exit >>
    /\ UNCHANGED << GATEWAY_IP, csv, prior_rows, gw_ip, speedtest, route >>

\* check_ip_address(IFACE), then the test of gw_ip
CheckIpAddress ==
    /\ pc = "check_ip_address"
    /\ \E res \in AddrResults :
         /\ calls' = Append(calls, "ip -4 addr show dev")
         /\ Launch("ip -4 addr show dev", res)
         /\ ok' = [ok EXCEPT !.ip = check_ip_address(res).ok]
         /\ IF ~check_ip_address(res).ok
            THEN LogAndReturn("ERROR", "precheck", check_ip_address(res).reason)
            ELSE IF falsy(gw_ip)
            THEN LogAndReturn("ERROR", "precheck", "NO_DEFAULT_ROUTE")
            ELSE /\ pc' = "check_gateway"
                 /\ UNCHANGED << diag, exit >>
    /\ UNCHANGED << GATEWAY_IP, csv, prior_rows, gw_ip, speedtest, route >>

\* check_gateway(gw_ip)
CheckGateway ==
    /\ pc = "check_gateway"
    /\ \E res \in PingResults :
         /\ calls' = Append(calls, "ping -c 1 -W 2")
         /\ Launch("ping -c 1 -W 2", res)
         /\ ok' = [ok EXCEPT !.gw = check_gateway(res).ok]
         /\ IF ~check_gateway(res).ok
            THEN LogAndReturn("ERROR", "precheck", check_gateway(res).reason)
            ELSE /\ pc' = "run_speedtest"
                 /\ UNCHANGED << diag, exit >>
    /\ UNCHANGED << GATEWAY_IP, csv, prior_rows, gw_ip, speedtest, route >>

\* 3) run_speedtest(), 4) validate_csv_line(out), 5) append_line(CSV_PATH, out)
RunSpeedtest ==
    /\ pc = "run_speedtest"
    /\ \E res \in SpeedtestResults :
         LET r == run_cmd(res) IN
         /\ calls' = Append(calls, "SPEEDTEST_CMD")
         /\ Launch("SPEEDTEST_CMD", res)
         /\ speedtest' = r
         /\ IF r.rc # 0
            THEN /\ LogAndReturn("ERROR", "speedtest", classify_speedtest_error(r.err))
                 /\ csv' = csv
            ELSE IF r.out = <<>>
            THEN /\ LogAndReturn("WARN", "speedtest", "EMPTY_OUTPUT")
                 /\ csv' = csv
            ELSE IF ~validate_csv_line(r.out)
            THEN /\ LogAndReturn("ERROR", "speedtest", "BAD_CSV_FORMAT")
                 /\ csv' = csv
            ELSE /\ csv' = append_line(csv, r.out)
                 /\ LogAndReturn("INFO", "speedtest", "OK")
    /\ UNCHANGED << GATEWAY_IP, prior_rows, gw_ip, ok, route >>

Next ==
    \/ EnsureCsvHeader
    \/ DetermineGateway
    \/ CheckIface
    \/ CheckIpAddress
    \/ CheckGateway
    \/ RunSpeedtest

Spec == Init /\ [][Next]_vars

(***************************************************************************)
(* Processes that do not exit.  subprocess.run is called without a         *)
(* timeout: it returns when the process it started has exited, and not     *)
(* before.  When the process never exits, main() stays in run_cmd.         *)
(***************************************************************************)
\* The command main() runs at each of its stages.
CommandAt(stage) ==
    CASE stage = "gateway" -> "ip route show default"
      [] stage = "check_iface" -> "ip link show"
      [] stage = "check_ip_address" -> "ip -4 addr show dev"
      [] stage = "check_gateway" -> "ping -c 1 -W 2"
      [] stage = "run_speedtest" -> "SPEEDTEST_CMD"

\* main() calls run_cmd and the process that is started never exits.
RunCmdBlocks ==
    /\ pc \in { "gateway", "check_iface", "check_ip_address", "check_gateway",
                "run_speedtest" }
    /\ pc = "gateway" => falsy(GATEWAY_IP)
    /\ calls' = Append(calls, CommandAt(pc))
    /\ pc' = "run_cmd"
    /\ UNCHANGED << GATEWAY_IP, csv, prior_rows, diag, gw_ip, ok, speedtest, exit,
                    route, unlaunched >>

NextBlocking == Next \/ RunCmdBlocks

\* main() is a sequential program that runs whenever it can take a step.
FairSpec == Init /\ [][NextBlocking]_vars /\ WF_vars(NextBlocking)

(***************************************************************************)
(* Runs in sequence.  The script is started again and again, each run      *)
(* after the one before it has returned, on the CSV file the earlier runs  *)
(* have left; the first run finds no file.                                 *)
(***************************************************************************)
\* Most data rows the CSV file holds when a further run is started.
MaxRows == 2

InitRuns ==
    /\ GATEWAY_IP \in GatewaySettings
    /\ csv = AbsentFile
    /\ prior_rows = <<>>
    /\ diag = <<>>
    /\ calls = <<>>
    /\ pc = "ensure_csv_header"
    /\ gw_ip = <<>>
    /\ ok = [iface |-> FALSE, ip |-> FALSE, gw |-> FALSE]
    /\ speedtest = [rc |-> 0, out |-> <<>>, err |-> <<>>]
    /\ exit = <<>>
    /\ route = <<>>
    /\ unlaunched = {}

\* sys.exit(main()) has ended the process; the script is started once more.
\* diag, calls and the other variables of a run start afresh.
NextRun ==
    /\ pc = "done"
    /\ Len(data_rows(csv.data)) <= MaxRows
    /\ pc' = "ensure_csv_header"
    /\ prior_rows' = data_rows(csv.data)
    /\ diag' = <<>>
    /\ calls' = <<>>
    /\ gw_ip' = <<>>
    /\ ok' = [iface |-> FALSE, ip |-> FALSE, gw |-> FALSE]
    /\ speedtest' = [rc |-> 0, out |-> <<>>, err |-> <<>>]
    /\ exit' = <<>>
    /\ route' = <<>>
    /\ unlaunched' = {}
    /\ UNCHANGED << GATEWAY_IP, csv >>

NextRuns == Next \/ NextRun

SpecRuns == InitRuns /\ [][NextRuns]_vars

(***************************************************************************)
(* Properties                                                              *)
(***************************************************************************)
\* The reason codes of the events the run has logged.
Reasons == { diag[i].reason : i \in 1..Len(diag) }

\* The external commands the run has invoked.
Invoked == { calls[i] : i \in 1..Len(calls) }

\* main() has come back from ensure_csv_header and has not yet appended.
AfterEnsure ==
    pc \in { "gateway", "check_iface", "check_ip_address", "check_gateway",
             "run_speedtest" }

\* The measurement ran, exited 0 and printed something that has 22
\* comma-separated fields (one more than it has commas).
Accepted ==
    /\ "SPEEDTEST_CMD" \in Invoked
    /\ speedtest.rc = 0
    /\ speedtest.out # <<>>
    /\ Cardinality({ i \in 1..Len(speedtest.out) : speedtest.out[i] = "," }) + 1 = 22

\* C1: once ensure_csv_header has returned, and so when the run is over, the
\* first line of the CSV file is exactly the canonical header, whatever the
\* file held before.
C1_FirstLineIsHeader ==
    pc # "ensure_csv_header" =>
        /\ csv.exists
        /\ splitlines(csv.data) # <<>>
        /\ Head(splitlines(csv.data)) = CSV_HEADER

\* C2: when ensure_csv_header has repaired the header of a readable file,
\* the data rows of the file are the data rows it held before, all of them
\* and in the same order.
C2_RepairKeepsDataRows ==
    (AfterEnsure /\ "CSV_HEADER_FIXED" \in Reasons) =>
        data_rows(csv.data) = prior_rows

\* C3, as claimed: a run that is over has logged exactly one event.
C3_ExactlyOneEvent == pc = "done" => Len(diag) = 1

\* C3, amended: main() logs exactly one event at its exit (phase precheck or
\* speedtest), as the last event of the run; before it ensure_csv_header may
\* have logged one event of phase init (CSV_HEADER_FIXED or CSV_READ_ERROR),
\* so a run logs one or two events, never none and never three.
C3_OneExitEvent ==
    /\ pc # "done" =>
           /\ Len(diag) <= 1
           /\ \A i \in 1..Len(diag) : diag[i].phase = "init"
    /\ pc = "done" =>
           /\ Len(diag) \in { 1, 2 }
           /\ diag[Len(diag)].phase \in { "precheck", "speedtest" }
           /\ Len(diag) = 2 =>
                  /\ diag[1].phase = "init"
                  /\ diag[1].reason \in { "CSV_HEADER_FIXED", "CSV_READ_ERROR" }

\* A run that repaired the header and then stopped at the interface check.
C3_RepairThenExit ==
    /\ pc = "done"
    /\ Len(diag) = 2
    /\ diag[1].reason = "CSV_HEADER_FIXED"
    /\ diag[2].reason = "IFACE_DOWN"

\* C4: main() returns 0 on every path: the run has a return value exactly
\* when it is over, and the value is 0.
C4_ExitCodeZero ==
    /\ (pc = "done") <=> (exit # <<>>)
    /\ exit # <<>> => exit = << 0 >>

\* A run that ended on a failure: the measurement command failed.
C4_FailedRunOver ==
    /\ pc = "done"
    /\ speedtest.rc # 0
    /\ "SPEEDTEST_CMD" \in Invoked
    /\ exit = << 0 >>

\* C5: a run whose measurement was not accepted leaves the data rows of a
\* readable CSV file as they were.
C5_RejectedRunKeepsRows ==
    (pc = "done" /\ ~Accepted /\ "CSV_READ_ERROR" \notin Reasons) =>
        data_rows(csv.data) = prior_rows

\* C6: a run whose measurement printed one line of 22 fields leaves that
\* line as the last line of the CSV file, ended by a single line feed, and
\* logs one INFO event of phase speedtest with reason OK.
C6_AppendedVerbatim ==
    (pc = "done" /\ Accepted /\ find(speedtest.out, NL) = 0) =>
        /\ splitlines(csv.data)[Len(splitlines(csv.data))] = speedtest.out
        /\ csv.data[Len(csv.data)] = NL
        /\ csv.data[Len(csv.data) - 1] # NL
        /\ Cardinality({ i \in 1..Len(diag) :
               /\ diag[i].level = "INFO"
               /\ diag[i].phase = "speedtest"
               /\ diag[i].reason = "OK" }) = 1

\* The position of a command in an order of commands (0 when it is not in).
StageIn(order, cmd) ==
    IF \E k \in 1..Len(order) : order[k] = cmd
    THEN CHOOSE k \in 1..Len(order) : order[k] = cmd
    ELSE 0

\* The commands were invoked in the given order, each at most once.
InvokedInOrder(order) ==
    \A i, j \in 1..Len(calls) :
        i < j => StageIn(order, calls[i]) < StageIn(order, calls[j])

IfaceFailed == "ip link show" \in Invoked /\ ~ok.iface

AddrFailed == "ip -4 addr show dev" \in Invoked /\ ~ok.ip

\* C7, as claimed: link query, address query, default-route query, gateway
\* probe, in that order, and no command of a later stage in a run in which
\* an earlier stage fails.
C7_DocumentedOrder ==
    /\ InvokedInOrder(<< "ip link show", "ip -4 addr show dev",
                         "ip route show default", "ping -c 1 -W 2",
                         "SPEEDTEST_CMD" >>)
    /\ IfaceFailed =>
           Invoked \cap { "ip -4 addr show dev", "ip route show default",
                          "ping -c 1 -W 2" } = {}
    /\ AddrFailed =>
           Invoked \cap { "ip route show default", "ping -c 1 -W 2" } = {}

\* C7, amended: the default-route query is invoked first, before the
\* interface check, and only when no gateway is configured; then the link
\* query, the address query and the gateway probe in that order.  The checks
\* short-circuit: no address query, probe or measurement after a failed
\* interface check, no probe or measurement after a failed address check or
\* without a gateway, no measurement after a failed probe; and
\* NO_DEFAULT_ROUTE is reported only once both checks have passed.
C7_ActualOrder ==
    /\ InvokedInOrder(<< "ip route show default", "ip link show",
                         "ip -4 addr show dev", "ping -c 1 -W 2",
                         "SPEEDTEST_CMD" >>)
    /\ "ip route show default" \in Invoked => falsy(GATEWAY_IP)
    /\ IfaceFailed =>
           Invoked \cap { "ip -4 addr show dev", "ping -c 1 -W 2",
                          "SPEEDTEST_CMD" } = {}
    /\ AddrFailed => Invoked \cap { "ping -c 1 -W 2", "SPEEDTEST_CMD" } = {}
    /\ "NO_DEFAULT_ROUTE" \in Reasons =>
           /\ ok.iface /\ ok.ip
           /\ Invoked \cap { "ping -c 1 -W 2", "SPEEDTEST_CMD" } = {}
    /\ ("ping -c 1 -W 2" \in Invoked /\ ~ok.gw) => "SPEEDTEST_CMD" \notin Invoked

\* A run that queried the default route and then failed the interface check.
C7_RouteBeforeFailedIface ==
    /\ pc = "done"
    /\ calls = << "ip route show default", "ip link show" >>
    /\ ~ok.iface

\* C8: after a failed interface check neither the gateway probe nor the
\* measurement command is invoked; the probe is invoked only after the link
\* query and the address query, both checks passed, with a gateway known.
C8_ProbeOnlyAfterChecks ==
    /\ IfaceFailed => Invoked \cap { "ping -c 1 -W 2", "SPEEDTEST_CMD" } = {}
    /\ \A k \in 1..Len(calls) :
           calls[k] = "ping -c 1 -W 2" =>
               /\ ok.iface /\ ok.ip
               /\ ~falsy(gw_ip)
               /\ \E i \in 1..(k - 1) : calls[i] = "ip link show"
               /\ \E i \in 1..(k - 1) : calls[i] = "ip -4 addr show dev"

\* A run that stopped at a failed interface check.
C8_StoppedAtIface == pc = "done" /\ IfaceFailed /\ "IFACE_NOT_FOUND" \in Reasons

\* C9: a non-empty output of a successful measurement is accepted (reason
\* OK) exactly when it has 22 comma-separated fields, and is refused
\* (BAD_CSV_FORMAT) for every other count; what the fields hold plays no part.
C9_ValidatesFieldCount ==
    (/\ pc = "done"
     /\ "SPEEDTEST_CMD" \in Invoked
     /\ speedtest.rc = 0
     /\ speedtest.out # <<>>) =>
        LET n == Cardinality({ i \in 1..Len(speedtest.out) :
                                   speedtest.out[i] = "," }) + 1
        IN  /\ ("OK" \in Reasons) <=> (n = 22)
            /\ ("BAD_CSV_FORMAT" \in Reasons) <=> (n # 22)

\* A line of 22 empty fields was accepted.
C9_EmptyFieldsAccepted ==
    /\ pc = "done"
    /\ speedtest.out = EmptyRow
    /\ "OK" \in Reasons

\* C10: the reason logged for a failed measurement is given by the first
\* rule that matches its stderr: NotFoundException, Network unreachable,
\* timeout in any case, permission denied in any case, empty, anything else.
C10_FirstMatchingRule ==
    (pc = "done" /\ "SPEEDTEST_CMD" \in Invoked /\ speedtest.rc # 0) =>
        LET e == speedtest.err
            r == diag[Len(diag)].reason
            r1 == contains(e, << "NotFoundException" >>)
            r2 == contains(e, << "Network", " ", "unreachable" >>)
            r3 == \E i \in 1..Len(e) : e[i] \in { "timeout", "Timeout", "TIMEOUT" }
            r4 == \E i \in 1..(Len(e) - 2) :
                      /\ e[i] \in { "permission", "Permission" }
                      /\ e[i + 1] = " "
                      /\ e[i + 2] = "denied"
        IN  /\ r \in { "SPEEDTEST_IFACE_NOT_FOUND", "SPEEDTEST_NET_UNREACH",
                       "SPEEDTEST_TIMEOUT", "SPEEDTEST_PERMISSION",
                       "SPEEDTEST_UNKNOWN", "SPEEDTEST_ERROR" }
            /\ r1 => r = "SPEEDTEST_IFACE_NOT_FOUND"
            /\ (~r1 /\ r2) => r = "SPEEDTEST_NET_UNREACH"
            /\ (~r1 /\ ~r2 /\ r3) => r = "SPEEDTEST_TIMEOUT"
            /\ (~r1 /\ ~r2 /\ ~r3 /\ r4) => r = "SPEEDTEST_PERMISSION"
            /\ (~r1 /\ ~r2 /\ ~r3 /\ ~r4 /\ e = <<>>) => r = "SPEEDTEST_UNKNOWN"
            /\ (~r1 /\ ~r2 /\ ~r3 /\ ~r4 /\ e # <<>>) => r = "SPEEDTEST_ERROR"

\* A stderr that matches the first two rules was classified by the first.
C10_TwoRulesMatch ==
    /\ pc = "done"
    /\ speedtest.rc # 0
    /\ contains(speedtest.err, << "NotFoundException" >>)
    /\ contains(speedtest.err, << "Network", " ", "unreachable" >>)
    /\ "SPEEDTEST_IFACE_NOT_FOUND" \in Reasons

\* The run is over and its last event has this level, phase and reason.
EndedWith(level, phase, reason) ==
    /\ pc = "done"
    /\ exit = << 0 >>
    /\ diag # <<>>
    /\ diag[Len(diag)].level = level
    /\ diag[Len(diag)].phase = phase
    /\ diag[Len(diag)].reason = reason

\* C11: run_cmd does not raise when a command cannot be launched (missing
\* binary, permission error, unbalanced quotes, empty command): it returns
\* a non-zero exit code, an empty stdout and the error description as
\* stderr, so the check that called it reports its failure and main()
\* returns as on any other failed check.
C11_LaunchFailureIsAResult ==
    /\ "ip route show default" \in unlaunched => gw_ip = None
    /\ "ip link show" \in unlaunched =>
           ~ok.iface /\ EndedWith("ERROR", "precheck", "IFACE_NOT_FOUND")
    /\ "ip -4 addr show dev" \in unlaunched =>
           ~ok.ip /\ EndedWith("ERROR", "precheck", "ADDR_CMD_ERROR")
    /\ "ping -c 1 -W 2" \in unlaunched =>
           ~ok.gw /\ EndedWith("ERROR", "precheck", "GATEWAY_UNREACH")
    /\ "SPEEDTEST_CMD" \in unlaunched =>
           /\ speedtest.rc # 0
           /\ speedtest.out = <<>>
           /\ speedtest.err \in SpeedtestLaunchErrors
           /\ EndedWith("ERROR", "speedtest", classify_speedtest_error(speedtest.err))

\* The measurement command had an unbalanced quote: the run ended with the
\* error that shlex.split raised as the stderr of a failed measurement.
C11_UnbalancedQuote ==
    /\ "SPEEDTEST_CMD" \in unlaunched
    /\ speedtest = [rc |-> 1, out |-> <<>>,
                    err |-> << "ValueError:", " ", "No", " ", "closing", " ",
                               "quotation" >>]
    /\ EndedWith("ERROR", "speedtest", "SPEEDTEST_ERROR")

\* C12: every run of main() eventually returns, even when a process it
\* started never exits on its own.
C12_RunTerminates == <>(pc = "done")

\* C13, as claimed: whatever the file held, a second call of
\* ensure_csv_header made right after the first leaves the file as it is
\* and logs nothing.
C13_SecondCallDoesNothing ==
    pc = "gateway" =>
        \A read_ok \in BOOLEAN :
            ensure_csv_header(csv, read_ok) = [csv |-> csv, events |-> <<>>]

\* C13, amended: a second call that can read the file leaves it as it is
\* and logs nothing, and so does a first call on a readable file whose first
\* line is the header; a second call that cannot read the file logs
\* CSV_READ_ERROR once more and leaves a file that holds the header only.
C13_SecondReadableCallDoesNothing ==
    /\ pc = "gateway" =>
           /\ ensure_csv_header(csv, TRUE) = [csv |-> csv, events |-> <<>>]
           /\ Len(ensure_csv_header(csv, FALSE).events) = 1
           /\ ensure_csv_header(csv, FALSE).events[1].reason = "CSV_READ_ERROR"
           /\ ensure_csv_header(csv, FALSE).csv = write_file(CSV_HEADER \o <<NL>>)
    /\ (/\ pc = "ensure_csv_header"
        /\ csv.exists
        /\ splitlines(csv.data) # <<>>
        /\ Head(splitlines(csv.data)) = CSV_HEADER) =>
           ensure_csv_header(csv, TRUE) = [csv |-> csv, events |-> <<>>]

\* The first call has repaired the header of a file that holds data rows;
\* a second call is about to find the file in order.
C13_AfterRepair ==
    /\ pc = "gateway"
    /\ "CSV_HEADER_FIXED" \in Reasons
    /\ data_rows(csv.data) # <<>>
    /\ ensure_csv_header(csv, TRUE).events = <<>>

\* The lines a route query printed, none when it could not be launched or
\* exited non-zero.
RouteLines(res) ==
    IF res.launched /\ res.returncode = 0 THEN splitlines(strip(res.stdout))
    ELSE <<>>

\* The line has at least five tokens and starts with `default via`.
IsDefaultVia(line) ==
    /\ Len(split_ws(line)) >= 5
    /\ split_ws(line)[1] = << "default" >>
    /\ split_ws(line)[2] = << "via" >>

HasDefaultVia(res) ==
    \E k \in 1..Len(RouteLines(res)) : IsDefaultVia(RouteLines(res)[k])

\* The third token of the first such line.
FirstDefaultVia(res) ==
    LET k == CHOOSE k \in 1..Len(RouteLines(res)) :
                 /\ IsDefaultVia(RouteLines(res)[k])
                 /\ \A j \in 1..(k - 1) : ~IsDefaultVia(RouteLines(res)[j])
    IN  split_ws(RouteLines(res)[k])[3]

\* The events of phase precheck the run has logged.
PrecheckEvents == { i \in 1..Len(diag) : diag[i].phase = "precheck" }

\* A configured gateway is used as it is and the route is never queried;
\* otherwise the gateway is the third token of the first `default via`
\* line of at least five tokens that the route query printed.
GatewayDiscovered ==
    /\ ~falsy(GATEWAY_IP) =>
           /\ "ip route show default" \notin Invoked
           /\ route = <<>>
           /\ pc \notin { "ensure_csv_header", "gateway" } => gw_ip = GATEWAY_IP
    /\ (route # <<>> /\ HasDefaultVia(route[1])) =>
           /\ gw_ip = FirstDefaultVia(route[1])
           /\ ~falsy(gw_ip)
    /\ "ping -c 1 -W 2" \in Invoked => ~falsy(gw_ip)

\* C14, as claimed: gateway discovery as above, and a run whose route query
\* gave no gateway ends with one ERROR event of phase precheck and reason
\* NO_DEFAULT_ROUTE, without a gateway probe.
C14_NoRouteEndsRun ==
    /\ GatewayDiscovered
    /\ (route # <<>> /\ ~HasDefaultVia(route[1])) =>
           /\ "ping -c 1 -W 2" \notin Invoked
           /\ pc = "done" =>
                  /\ EndedWith("ERROR", "precheck", "NO_DEFAULT_ROUTE")
                  /\ Cardinality(PrecheckEvents) = 1

\* C14, amended: gateway discovery as above; a run whose route query gave
\* no gateway invokes neither the gateway probe nor the measurement, and
\* ends with one ERROR event of phase precheck: NO_DEFAULT_ROUTE when the
\* interface check and the address check have passed, and the reason of
\* the check that failed otherwise.
C14_NoRouteAfterChecks ==
    /\ GatewayDiscovered
    /\ (route # <<>> /\ ~HasDefaultVia(route[1])) =>
           /\ falsy(gw_ip)
           /\ Invoked \cap { "ping -c 1 -W 2", "SPEEDTEST_CMD" } = {}
           /\ pc = "done" =>
                  /\ Cardinality(PrecheckEvents) = 1
                  /\ (ok.iface /\ ok.ip) =>
                         EndedWith("ERROR", "precheck", "NO_DEFAULT_ROUTE")
                  /\ ~ok.iface =>
                         \/ EndedWith("ERROR", "precheck", "IFACE_NOT_FOUND")
                         \/ EndedWith("ERROR", "precheck", "IFACE_DOWN")
                  /\ (ok.iface /\ ~ok.ip) =>
                         \/ EndedWith("ERROR", "precheck", "ADDR_CMD_ERROR")
                         \/ EndedWith("ERROR", "precheck", "NO_IP_ADDR")

\* The route query printed a default route without `via`; both checks
\* passed and the run ended with NO_DEFAULT_ROUTE and no probe.
C14_NoViaLine ==
    /\ falsy(GATEWAY_IP)
    /\ route = << Proc(0, << "default", " ", "dev", " ", "ppp0", " ", "scope", " ",
                            "link", NL >>, <<>>) >>
    /\ ok.iface /\ ok.ip
    /\ EndedWith("ERROR", "precheck", "NO_DEFAULT_ROUTE")
    /\ "ping -c 1 -W 2" \notin Invoked

\* The event ensure_csv_header logs for a file it cannot read.
ReadErrorEvent ==
    [ts |-> iso_now, level |-> "ERROR", phase |-> "init", reason |-> "CSV_READ_ERROR"]

\* C15: for a CSV file that cannot be read, ensure_csv_header logs one ERROR
\* event of phase init with reason CSV_READ_ERROR and leaves a file that
\* holds the header line only; it returns, so the run goes on to its checks
\* and ends with its exit event.  Outside a header repair, data rows are
\* never all lost without that event in the log.
C15_ReadErrorDiagnosed ==
    /\ (pc = "ensure_csv_header" /\ csv.exists) =>
           ensure_csv_header(csv, FALSE) =
               [csv |-> write_file(CSV_HEADER \o <<NL>>),
                events |-> << ReadErrorEvent >>]
    /\ "CSV_READ_ERROR" \in Reasons =>
           /\ diag[1] = ReadErrorEvent
           /\ \A i \in 2..Len(diag) : diag[i].reason # "CSV_READ_ERROR"
           /\ AfterEnsure => csv = write_file(CSV_HEADER \o <<NL>>)
           /\ pc = "done" =>
                  /\ "ip link show" \in Invoked
                  /\ Len(diag) = 2
                  /\ diag[2].phase \in { "precheck", "speedtest" }
                  /\ exit = << 0 >>
    /\ (/\ pc # "ensure_csv_header"
        /\ prior_rows # <<>>
        /\ data_rows(csv.data) = <<>>
        /\ "CSV_HEADER_FIXED" \notin Reasons) =>
           "CSV_READ_ERROR" \in Reasons

\* A file with data rows could not be read: the event was logged, the file
\* recreated, and the run went on to a measurement that was appended.
C15_RunWentOn ==
    /\ pc = "done"
    /\ prior_rows # <<>>
    /\ diag[1] = ReadErrorEvent
    /\ EndedWith("INFO", "speedtest", "OK")
    /\ csv.data = CSV_HEADER \o << NL >> \o GoodRow \o << NL >>

\* The level and the phase documented for each reason code.
Vocabulary ==
    [r \in { "IFACE_NOT_FOUND", "IFACE_DOWN", "ADDR_CMD_ERROR", "NO_IP_ADDR",
             "NO_DEFAULT_ROUTE", "GATEWAY_UNREACH" } |->
        [level |-> "ERROR", phase |-> "precheck"]]
    @@ [r \in { "SPEEDTEST_IFACE_NOT_FOUND", "SPEEDTEST_NET_UNREACH",
                "SPEEDTEST_TIMEOUT", "SPEEDTEST_PERMISSION", "SPEEDTEST_UNKNOWN",
                "SPEEDTEST_ERROR", "BAD_CSV_FORMAT" } |->
        [level |-> "ERROR", phase |-> "speedtest"]]
    @@ ("EMPTY_OUTPUT" :> [level |-> "WARN", phase |-> "speedtest"])
    @@ ("OK" :> [level |-> "INFO", phase |-> "speedtest"])
    @@ ("CSV_HEADER_FIXED" :> [level |-> "INFO", phase |-> "init"])
    @@ ("CSV_READ_ERROR" :> [level |-> "ERROR", phase |-> "init"])

\* C16: every event of the diagnostics log carries ts, level, phase and
\* reason; the reason is one of the 17 documented codes, and the level and
\* the phase are the ones documented for that reason.
C16_EventsWellFormed ==
    /\ Cardinality(DOMAIN Vocabulary) = 17
    /\ \A i \in 1..Len(diag) :
           /\ DOMAIN diag[i] = { "ts", "level", "phase", "reason" }
           /\ diag[i].ts = iso_now
           /\ diag[i].level \in { "INFO", "WARN", "ERROR" }
           /\ diag[i].phase \in { "init", "precheck", "speedtest" }
           /\ diag[i].reason \in DOMAIN Vocabulary
           /\ diag[i].level = Vocabulary[diag[i].reason].level
           /\ diag[i].phase = Vocabulary[diag[i].reason].phase

\* A run that logged an event of ensure_csv_header, which does not set
\* "ts" itself, and then a WARN event.
C16_InitThenWarn ==
    /\ pc = "done"
    /\ Len(diag) = 2
    /\ diag[1].reason = "CSV_HEADER_FIXED"
    /\ diag[1].ts = iso_now
    /\ diag[2] = [ts |-> iso_now, level |-> "WARN", phase |-> "speedtest",
                  reason |-> "EMPTY_OUTPUT"]

\* s is a prefix of t.
IsPrefix(s, t) == Len(s) <= Len(t) /\ SubSeq(t, 1, Len(s)) = s

\* C17: over runs in sequence that start without a CSV file, a run that
\* meets no read error leaves the data rows it found, in their order, with
\* at most new rows after them; until it appends, the rows are as it found
\* them.
C17_RowsOnlyAppended ==
    "CSV_READ_ERROR" \notin Reasons =>
        /\ IsPrefix(prior_rows, data_rows(csv.data))
        /\ "OK" \notin Reasons => data_rows(csv.data) = prior_rows

\* A later run has appended its row after the rows of two earlier runs.
C17_ThirdRow ==
    /\ pc = "done"
    /\ prior_rows = << GoodRow, EmptyRow >>
    /\ data_rows(csv.data) = << GoodRow, EmptyRow, GoodRow >>
    /\ "CSV_READ_ERROR" \notin Reasons

\* C18: over runs in sequence that start without a CSV file, every data
\* line of the CSV file has 22 comma-separated fields, and a run that ends
\* with OK has added exactly one line.
C18_OneRowOf22Fields ==
    /\ \A i \in 1..Len(data_rows(csv.data)) :
           Len(split(data_rows(csv.data)[i], ",")) = 22
    /\ (pc = "done" /\ "OK" \in Reasons /\ "CSV_READ_ERROR" \notin Reasons) =>
           Len(data_rows(csv.data)) = Len(prior_rows) + 1

\* The text has exactly one header line: its first line is the header and
\* no later line starts with "timestamp".
OneHeaderLine(text) ==
    /\ splitlines(text) # <<>>
    /\ Head(splitlines(text)) = CSV_HEADER
    /\ \A i \in 2..Len(splitlines(text)) :
           ~startswith(splitlines(text)[i], << "timestamp" >>)

\* C19, as claimed: once ensure_csv_header has returned, the file has
\* exactly one header line, whatever it held before.
C19_OneHeaderLine == AfterEnsure => OneHeaderLine(csv.data)

\* C19, amended: a file that ensure_csv_header creates, recreates or
\* rewrites has exactly one header line; a readable file whose first line,
\* stripped, is the header is left as it is, later header lines included.
C19_OneHeaderWhenRewritten ==
    /\ pc = "ensure_csv_header" =>
           \A read_ok \in BOOLEAN :
               (~read_ok => csv.exists) =>
                   LET done == ensure_csv_header(csv, read_ok) IN
                   IF csv.exists /\ read_ok /\ strip(readline(csv.data)) = CSV_HEADER
                   THEN done = [csv |-> csv, events |-> <<>>]
                   ELSE OneHeaderLine(done.csv.data)
    /\ (AfterEnsure /\ Reasons \cap { "CSV_HEADER_FIXED", "CSV_READ_ERROR" } # {}) =>
           OneHeaderLine(csv.data)

\* ensure_csv_header has rewritten a file whose first line was not the
\* header: the file now holds the header, once, and the data row; the
\* header lines and blank lines it held are gone.
C19_RewrittenWithOneHeader ==
    /\ pc = "gateway"
    /\ "CSV_HEADER_FIXED" \in Reasons
    /\ prior_rows = << Row1 >>
    /\ csv = write_file(join_lines(<< CSV_HEADER, Row1 >>))

====
